---------------------------- MODULE Spec2Model ----------------------------
(***************************************************************************)
(* A model of the GKP stabilisation environment:                           *)
(*   src/gkp/gkp_tf_env/gkp_tf_env.py      class GKP                       *)
(*   src/gkp/gkp_tf_env/oscillator_env.py  class OscillatorGKP             *)
(*                                                                         *)
(* Numbers are exact.  A complex number is a pair <<re, im>> of integers,  *)
(* an operator is a 2x2 matrix of such pairs over a positive integer       *)
(* denominator (the oscillator is truncated to its two lowest levels), and *)
(* a state vector is kept as a direction (a vector of Gaussian integers)   *)
(* together with its squared norm (a fraction), so that normalisation and  *)
(* the lack of it are both represented without square roots.               *)
(***************************************************************************)
EXTENDS Integers, Sequences, FiniteSets, TLC

---------------------------------------------------------------------------
(* Complex scalars                                                         *)

C0 == <<0, 0>>
C1 == <<1, 0>>
CI == <<0, 1>>

CAdd(a, b) == <<a[1] + b[1], a[2] + b[2]>>
CSub(a, b) == <<a[1] - b[1], a[2] - b[2]>>
CMul(a, b) == <<a[1] * b[1] - a[2] * b[2], a[1] * b[2] + a[2] * b[1]>>
CConj(a) == <<a[1], -a[2]>>
CInt(k, a) == <<k * a[1], k * a[2]>>
CAbs2(a) == a[1] * a[1] + a[2] * a[2]

\* i^k
IPow(k) ==
    CASE k % 4 = 0 -> C1
      [] k % 4 = 1 -> CI
      [] k % 4 = 2 -> <<-1, 0>>
      [] OTHER -> <<0, -1>>

Abs(x) == IF x < 0 THEN -x ELSE x

RECURSIVE Gcd(_, _)
Gcd(a, b) == IF b = 0 THEN a ELSE Gcd(b, a % b)

\* a fraction <<num, den>> in lowest terms, den > 0
Frac(num, den) ==
    LET g == Gcd(Abs(num), Abs(den))
    IN  IF g = 0 THEN <<0, 1>> ELSE <<num \div g, den \div g>>

FracMul(x, y) ==
    LET a == Frac(x[1], y[2])
        b == Frac(y[1], x[2])
    IN  Frac(a[1] * b[1], a[2] * b[2])

One == <<1, 1>>

---------------------------------------------------------------------------
(* 2x2 operators: [d |-> denominator, m |-> rows of complex entries]       *)

Idx == 1..2

Mat(d, a, b, c, e) == [d |-> d, m |-> <<<<a, b>>, <<c, e>>>>]

\* the same operator with the common factor of its entries and its
\* denominator removed
MNorm(A) ==
    LET G2(c) == Gcd(Abs(c[1]), Abs(c[2]))
        g == Gcd(Gcd(Gcd(G2(A.m[1][1]), G2(A.m[1][2])),
                     Gcd(G2(A.m[2][1]), G2(A.m[2][2]))), A.d)
        e(i, j) == <<A.m[i][j][1] \div g, A.m[i][j][2] \div g>>
    IN  Mat(A.d \div g, e(1, 1), e(1, 2), e(2, 1), e(2, 2))

MAdd(A, B) ==
    LET e(i, j) == CAdd(CInt(B.d, A.m[i][j]), CInt(A.d, B.m[i][j]))
    IN  MNorm(Mat(A.d * B.d, e(1, 1), e(1, 2), e(2, 1), e(2, 2)))

MSub(A, B) ==
    LET e(i, j) == CSub(CInt(B.d, A.m[i][j]), CInt(A.d, B.m[i][j]))
    IN  MNorm(Mat(A.d * B.d, e(1, 1), e(1, 2), e(2, 1), e(2, 2)))

\* scalar c times A
MScale(c, A) ==
    LET e(i, j) == CMul(c, A.m[i][j])
    IN  Mat(A.d, e(1, 1), e(1, 2), e(2, 1), e(2, 2))

\* A divided by the positive integer k
MDiv(A, k) == MNorm([d |-> A.d * k, m |-> A.m])

\* tf.linalg.adjoint
adjoint(A) ==
    LET e(i, j) == CConj(A.m[j][i])
    IN  Mat(A.d, e(1, 1), e(1, 2), e(2, 1), e(2, 2))

\* batch_dot of two operators (one batch element)
MMul(A, B) ==
    LET e(i, j) == CAdd(CMul(A.m[i][1], B.m[1][j]),
                        CMul(A.m[i][2], B.m[2][j]))
    IN  MNorm(Mat(A.d * B.d, e(1, 1), e(1, 2), e(2, 1), e(2, 2)))

\* A = I, compared exactly
IsIdentity(A) ==
    \A i \in Idx : \A j \in Idx :
        A.m[i][j] = IF i = j THEN <<A.d, 0>> ELSE C0

IsZeroMat(A) == \A i \in Idx : \A j \in Idx : A.m[i][j] = C0

\* A^dagger A = I
IsUnitary(A) == IsIdentity(MMul(adjoint(A), A))

---------------------------------------------------------------------------
(* State vectors: [v |-> direction, n |-> squared norm]                    *)

VAbs2(v) == CAbs2(v[1]) + CAbs2(v[2])

\* the direction with positive integer factors removed
Reduce(v) ==
    LET g == Gcd(Gcd(Abs(v[1][1]), Abs(v[1][2])),
                 Gcd(Abs(v[2][1]), Abs(v[2][2])))
    IN  IF g = 0 THEN v
        ELSE <<<<v[1][1] \div g, v[1][2] \div g>>,
               <<v[2][1] \div g, v[2][2] \div g>>>>

MatVec(A, v) ==
    <<CAdd(CMul(A.m[1][1], v[1]), CMul(A.m[1][2], v[2])),
      CAdd(CMul(A.m[2][1], v[1]), CMul(A.m[2][2], v[2]))>>

\* batch_dot of an operator and a state (one batch element): the direction
\* A.m v, and the squared norm scaled by |A.m v|^2 / (d^2 |v|^2)
batch_dot(A, psi) ==
    LET w == MatVec(A, psi.v)
        w2 == VAbs2(w)
    IN  IF w2 = 0 THEN [v |-> w, n |-> <<0, 1>>]
        ELSE [v |-> Reduce(w),
              n |-> FracMul(psi.n, FracMul(Frac(w2, VAbs2(psi.v)),
                                           Frac(1, A.d * A.d)))]

IsUnitNorm(psi) == psi.n = One
IsZeroVec(psi) == psi.n[1] = 0

---------------------------------------------------------------------------
(* Gates (oscillator_env.py, GATES).  An amplitude is a pair <<t, u>>: its  *)
(* direction in phase space is i^u and t names its length, through the     *)
(* rotation angle |amplitude|/sqrt(2) that the translation makes in the    *)
(* two-level truncation.  The lengths are those whose translation has      *)
(* exact rational entries.                                                 *)

\* <<cos, sin, denominator>> of the angle named t:
\*   0: 0,  1: pi/2,  2: pi,  3: 2*atan(4/3),  4: atan(4/3)
CosSin(t) ==
    CASE t = 0 -> <<1, 0, 1>>
      [] t = 1 -> <<0, 1, 1>>
      [] t = 2 -> <<-1, 0, 1>>
      [] t = 3 -> <<-7, 24, 25>>
      [] OTHER -> <<3, 4, 5>>

ZeroAmp == <<0, 0>>

\* amplitude/2.0, for the lengths whose half is in the table
Halvable(a) == a[1] \in {0, 2, 3}
Half(a) ==
    <<(CASE a[1] = 0 -> 0 [] a[1] = 2 -> 1 [] OTHER -> 4), a[2]>>

\* expm(amplitude/sqrt(2)*a_dag - conj(amplitude)/sqrt(2)*a) on two levels:
\* cos*I + sin*[[0, -conj(u)], [u, 0]]
translate(amplitude) ==
    LET cs == CosSin(amplitude[1])
        u == IPow(amplitude[2])
    IN  Mat(cs[3], <<cs[1], 0>>, CInt(-cs[2], CConj(u)),
                   CInt(cs[2], u), <<cs[1], 0>>)

\* phi is counted in quarter turns: expm(1j*phi) = i^phi
phase(phi) == IPow(phi)

\* self.I
I == Mat(1, C1, C0, C0, C1)

---------------------------------------------------------------------------
(* The measurement Kraus operators of the three circuits, Kraus[0] and     *)
(* Kraus[1] of each.                                                       *)

Kraus_v1_flipped(action) ==
    LET Tb == translate(action.beta)
        K == MDiv(MAdd(I, MScale(phase(action.phi), Tb)), 2)
    IN  0 :> K @@ 1 :> K

Kraus_v1(action) ==
    LET Tb == translate(action.beta)
        pT == MScale(phase(action.phi), Tb)
    IN  0 :> MDiv(MAdd(I, pT), 2) @@ 1 :> MDiv(MSub(I, pT), 2)

Kraus_v2(action) ==
    LET Tb == translate(Half(action.beta))
        pT == MScale(phase(action.phi), Tb)
    IN  0 :> MDiv(MAdd(adjoint(Tb), pT), 2)
        @@ 1 :> MDiv(MSub(adjoint(Tb), pT), 2)

Kraus_v3(action) ==
    LET Tpb == translate(Half(action.beta))
        Tmb == adjoint(Tpb)
        Tpe == translate(Half(action.epsilon))
        Tme == adjoint(Tpe)
        dot3(A, B, C) == MMul(A, MMul(B, C))
        chunk1 == MAdd(MAdd(MSub(MScale(CI, dot3(Tmb, Tpe, Tpb)),
                                 MScale(CI, dot3(Tmb, Tme, Tpb))),
                            dot3(Tmb, Tme, Tmb)),
                       dot3(Tmb, Tpe, Tmb))
        chunk2 == MAdd(MAdd(MSub(MScale(CI, dot3(Tpb, Tme, Tmb)),
                                 MScale(CI, dot3(Tpb, Tpe, Tmb))),
                            dot3(Tpb, Tme, Tpb)),
                       dot3(Tpb, Tpe, Tpb))
        pc2 == MScale(phase(action.phi), chunk2)
    IN  0 :> MDiv(MAdd(chunk1, pc2), 4) @@ 1 :> MDiv(MSub(chunk1, pc2), 4)

\* the Kraus pair the circuit of the given type builds
CircuitKraus(type, action) ==
    CASE type = "v1" -> Kraus_v1(action)
      [] type = "v2" -> Kraus_v2(action)
      [] OTHER -> Kraus_v3(action)

\* Kraus[0]^dagger Kraus[0] + Kraus[1]^dagger Kraus[1] = I
Complete(K) ==
    IsIdentity(MAdd(MMul(adjoint(K[0]), K[0]), MMul(adjoint(K[1]), K[1])))

---------------------------------------------------------------------------
(* State preparation tables, decoherence and measurement                   *)

\* self.states: the vacuum and the cardinal code states, each of unit norm
states(name) ==
    LET vec == CASE name = "vac" -> <<C1, C0>>
                 [] name = "Z+" -> <<C1, C0>>
                 [] name = "Z-" -> <<C0, C1>>
                 [] name = "X+" -> <<C1, C1>>
                 [] name = "X-" -> <<C1, <<-1, 0>>>>
                 [] name = "Y+" -> <<C1, CI>>
                 [] OTHER -> <<C1, <<0, -1>>>>
    IN  [v |-> vec, n |-> One]

\* self.code_map: translation amplitudes of the logical Paulis and of the
\* two stabiliser generators
CodeKeys == {"X", "Y", "Z", "S_q", "S_p"}
code_map(key) ==
    CASE key = "X" -> <<1, 0>>
      [] key = "Y" -> <<1, 1>>
      [] key = "Z" -> <<2, 0>>
      [] key = "S_q" -> <<1, 0>>
      [] OTHER -> <<1, 1>>

\* self._original[i][0]: the first character of an initialisation label
FirstChar(label) ==
    CASE label = "vac" -> "v"
      [] label \in {"X+", "X-"} -> "X"
      [] label \in {"Y+", "Y-"} -> "Y"
      [] OTHER -> "Z"

\* normalize: state / sqrt(<state|state>)
normalize(state) ==
    IF IsZeroVec(state) THEN state ELSE [v |-> state.v, n |-> One]

\* Kraus operators of one time slice of the master equation on two levels,
\* with dt/T1 = 1 and pi*K_osc*dt = 1/2:
\*   Kraus[0] = I - 1j*H*dt - 1/2 c^dagger c dt = diag(1, (1+i)/2)
\*   Kraus[1] = sqrt(dt)*c = a
Kraus_mc ==
    0 :> Mat(2, <<2, 0>>, C0, C0, <<1, 1>>) @@ 1 :> Mat(1, C0, C1, C0, C0)

\* int(t_delay / dt) and int((t_gate + t_read) / dt)
mc_steps_delay == 1
mc_steps_round == 1

\* QuantumTrajectorySim.run: the states one batch element can be left in
\* after `steps` slices; in each slice one branch of non-zero probability is
\* realised and its candidate renormalised
RECURSIVE mc_run(_, _)
mc_run(psi, steps) ==
    IF steps = 0 THEN {psi}
    ELSE UNION {mc_run(normalize(candidate), steps - 1) :
                  candidate \in {c \in {batch_dot(Kraus_mc[k], psi) :
                                          k \in {0, 1}} : ~IsZeroVec(c)}}

\* measurement with the outcomes' signs exchanged (obs = 2*obs - 1)
measurement_swapped(psi, Kraus) ==
    LET collapsed == 0 :> batch_dot(Kraus[0], psi)
                     @@ 1 :> batch_dot(Kraus[1], psi)
        p == 0 :> collapsed[0].n @@ 1 :> collapsed[1].n
        sampled == IF p[0][1] = 0 /\ p[1][1] = 0 THEN {0, 1}
                   ELSE {o \in {0, 1} : p[o][1] > 0}
    IN  {[psi |-> collapsed[o], obs |-> 2 * o - 1] : o \in sampled}

\* measurement: the outcomes of one batch element, each with the state it
\* leaves.  Bernoulli(probs=p[1]/(p[0]+p[1])) samples 1 only if p[1] > 0 and
\* 0 only if p[0] > 0; the state is the sampled branch's candidate as it is
measurement(psi, Kraus) ==
    LET collapsed == 0 :> batch_dot(Kraus[0], psi)
                     @@ 1 :> batch_dot(Kraus[1], psi)
        p == 0 :> collapsed[0].n @@ 1 :> collapsed[1].n
        sampled == IF p[0][1] = 0 /\ p[1][1] = 0 THEN {0, 1}
                   ELSE {o \in {0, 1} : p[o][1] > 0}
    IN  {[psi |-> collapsed[o], obs |-> 1 - 2 * o] : o \in sampled}

\* the circuit with the cache taken after the gate/readout noise
quantum_circuit_cache_late(type, psi, action) ==
    UNION {UNION {UNION {UNION {
        {[psi_final |-> r.psi, psi_cached |-> noisy, obs |-> r.obs] :
            r \in measurement(normalize(noisy), Kraus)} :
        noisy \in mc_run(psi_cached, mc_steps_round)} :
        psi_cached \in {batch_dot(Ta, delayed)}} :
        delayed \in mc_run(psi, mc_steps_delay)} :
        Kraus \in {CircuitKraus(type, action)},
        Ta \in {translate(action.alpha)}}

\* quantum_circuit_v1/v2/v3: what one batch element can come out as,
\* [psi_final, psi_cached, obs]
quantum_circuit(type, psi, action) ==
    UNION {UNION {UNION {UNION {
        {[psi_final |-> r.psi, psi_cached |-> psi_cached, obs |-> r.obs] :
            r \in measurement(normalize(noisy), Kraus)} :
        noisy \in mc_run(psi_cached, mc_steps_round)} :
        psi_cached \in {batch_dot(Ta, delayed)}} :
        delayed \in mc_run(psi, mc_steps_delay)} :
        Kraus \in {CircuitKraus(type, action)},
        Ta \in {translate(action.alpha)}}

\* phase_estimation with sample=True: the outcomes z of one batch element
phase_estimation(psi, beta, angle) ==
    LET T_b == translate(beta)
        pT == MScale(phase(angle), T_b)
        Kraus == 0 :> MDiv(MAdd(I, pT), 2) @@ 1 :> MDiv(MSub(I, pT), 2)
    IN  {r.obs : r \in measurement(normalize(psi), Kraus)}

---------------------------------------------------------------------------
(* Bounds of the exploration                                               *)

\* Reset and Step are explored for batches of at most MaxBatch trajectories
MaxBatch == 2
\* at most MaxSteps step calls are explored after a reset
MaxSteps == 3
\* at most MaxPast step calls are explored after the one that ends an episode
MaxPast == 1
\* keyword arguments given to the constructor, in the systematic part
MaxKwargs == 2
\* assignments to the properties of a constructed environment
MaxAssign == 1

---------------------------------------------------------------------------
(* The environment object                                                  *)

VARIABLES
    status,                \* "constructing", "ready" (__init__ returned) or
                           \* "failed" (__init__ raised)
    kwargs,                \* the keyword arguments __init__ has yet to apply
    given,                 \* the keyword arguments __init__ was called with
    N, H, max_episode_length, episode_length, quantum_circuit_type,
    _batch_size, _init, _reward_mode,
    calculate_reward,      \* the reward function step dispatches to
    _state, _original, _elapsed_steps, _episode_ended, _episode_return,
    info,                  \* info['psi_cached'], <<>> when info is empty
    history,
    _current_time_step_,
    raised,                \* the exception the last call raised, or "none"
    assigns,               \* assignments made to the constructed object
    pe_calls,              \* phase_estimation calls made since the last reset
    pe_result,             \* what the last phase_estimation call returned
    call,                  \* the last call made: [op, arg]
    circuit_in,            \* a circuit type and one trajectory's action
    Kraus                  \* the measurement operators built from circuit_in

config == <<N, H, max_episode_length, episode_length, quantum_circuit_type,
            _batch_size, _init, _reward_mode, calculate_reward>>
episode == <<_state, _original, _elapsed_steps, _episode_ended,
             _episode_return, info, history, _current_time_step_,
             pe_calls, pe_result>>
vars == <<status, kwargs, given, config, episode, raised, assigns, call,
          circuit_in, Kraus>>

\* 'code_map' in self.__dir__(): define_stabilizer_code has run
has_code_map == status = "ready"

---------------------------------------------------------------------------
(* Property setters.  Each gives the values the attributes are left with   *)
(* and whether the assignment raised.                                      *)

RewardModes == {"zero", "pauli", "stabilizers", "mixed"}
InitModes == {"vac", "random", "X+", "X-", "Y+", "Y-", "Z+", "Z-"}

reward_function(mode) ==
    CASE mode = "zero" -> "reward_zero"
      [] mode = "stabilizers" -> "reward_stabilizers"
      [] mode = "pauli" -> "reward_pauli"
      [] OTHER -> "reward_mixed"

\* reward_mode.setter without the test of init
reward_mode_setter_unchecked(mode) ==
    IF mode \notin RewardModes
    THEN [_reward_mode |-> _reward_mode,
          calculate_reward |-> calculate_reward, raised |-> "ValueError"]
    ELSE [_reward_mode |-> mode,
          calculate_reward |-> reward_function(mode), raised |-> "none"]

\* reward_mode.setter
reward_mode_setter(mode) ==
    IF mode \notin RewardModes
    THEN [_reward_mode |-> _reward_mode,
          calculate_reward |-> calculate_reward, raised |-> "ValueError"]
    ELSE IF mode = "pauli" /\ _init = "vac"
    THEN [_reward_mode |-> mode,
          calculate_reward |-> calculate_reward, raised |-> "ValueError"]
    ELSE [_reward_mode |-> mode,
          calculate_reward |-> reward_function(mode), raised |-> "none"]

\* init.setter falling back to the default on an unsupported name
init_setter_defaulting(val) ==
    IF val \in InitModes
    THEN [_init |-> val, raised |-> "none"]
    ELSE [_init |-> "vac", raised |-> "ValueError"]

\* init.setter
init_setter(val) ==
    IF val \in InitModes
    THEN [_init |-> val, raised |-> "none"]
    ELSE [_init |-> _init, raised |-> "ValueError"]

\* batch_size.setter without the test of code_map
batch_size_setter_late(size) ==
    IF size.i > 0 /\ size.int
    THEN [_batch_size |-> size.i, raised |-> "none"]
    ELSE [_batch_size |-> _batch_size, raised |-> "ValueError"]

\* batch_size.setter; a size is [int |-> isinstance(size, int), i |-> value]
batch_size_setter(size) ==
    IF has_code_map
    THEN [_batch_size |-> _batch_size, raised |-> "ValueError"]
    ELSE IF size.i > 0 /\ size.int
    THEN [_batch_size |-> size.i, raised |-> "none"]
    ELSE [_batch_size |-> _batch_size, raised |-> "ValueError"]

\* N.setter
N_setter(n) ==
    IF has_code_map
    THEN [N |-> N, raised |-> "ValueError"]
    ELSE [N |-> n, raised |-> "none"]

---------------------------------------------------------------------------
(* Construction: GKP.__init__                                              *)

\* a keyword argument: the key, and its value as a string (s) or a number
\* (i, with int = isinstance(value, int))
Kw(k, str, i, isint) == [k |-> k, s |-> str, i |-> i, int |-> isint]
KwS(k, str) == Kw(k, str, 0, FALSE)
KwI(k, i) == Kw(k, "", i, TRUE)
NoArg == Kw("", "", 0, FALSE)
Call(op, arg) == [op |-> op, arg |-> arg]

current ==
    [N |-> N, H |-> H, max_episode_length |-> max_episode_length,
     episode_length |-> episode_length,
     quantum_circuit_type |-> quantum_circuit_type,
     _batch_size |-> _batch_size, _init |-> _init,
     _reward_mode |-> _reward_mode, calculate_reward |-> calculate_reward,
     raised |-> "none"]

\* setattr(self, key, val): the attributes after it, and whether it raised
setattr(kw) ==
    CASE kw.k = "init" ->
           LET r == init_setter(kw.s)
           IN  [current EXCEPT !._init = r._init, !.raised = r.raised]
      [] kw.k = "reward_mode" ->
           LET r == reward_mode_setter(kw.s)
           IN  [current EXCEPT !._reward_mode = r._reward_mode,
                               !.calculate_reward = r.calculate_reward,
                               !.raised = r.raised]
      [] kw.k = "batch_size" ->
           LET r == batch_size_setter(kw)
           IN  [current EXCEPT !._batch_size = r._batch_size,
                               !.raised = r.raised]
      [] kw.k = "N" ->
           LET r == N_setter(kw.i)
           IN  [current EXCEPT !.N = r.N, !.raised = r.raised]
      [] kw.k = "H" -> [current EXCEPT !.H = kw.i]
      [] kw.k = "episode_length" -> [current EXCEPT !.episode_length = kw.i]
      [] kw.k = "max_episode_length" ->
           [current EXCEPT !.max_episode_length = kw.i]
      [] OTHER -> [current EXCEPT !.quantum_circuit_type = kw.s]

Assign(r) ==
    /\ N' = r.N
    /\ H' = r.H
    /\ max_episode_length' = r.max_episode_length
    /\ episode_length' = r.episode_length
    /\ quantum_circuit_type' = r.quantum_circuit_type
    /\ _batch_size' = r._batch_size
    /\ _init' = r._init
    /\ _reward_mode' = r._reward_mode
    /\ calculate_reward' = r.calculate_reward
    /\ raised' = r.raised

\* the keyword arguments explored systematically, in every order
CfgPairs ==
    {KwS("init", x) : x \in {"vac", "X+", "bogus"}}
    \cup {KwS("reward_mode", x) : x \in {"pauli", "mixed", "bogus"}}
    \cup {KwI("batch_size", 7), KwI("batch_size", 0),
          Kw("batch_size", "", 2, FALSE)}
    \cup {KwI("N", 20)}

DistinctKeys(q) ==
    \A i \in 1..Len(q) : \A j \in 1..Len(q) : i # j => q[i].k # q[j].k

CfgKwargs ==
    UNION {{q \in [1..n -> CfgPairs] : DistinctKeys(q)} : n \in 0..MaxKwargs}

\* the constructions whose episodes are explored
RunKwargs ==
    {<<KwI("N", 20), KwI("batch_size", 2), KwI("episode_length", 3)>>,
     <<KwI("batch_size", 1), KwI("episode_length", 2), KwI("H", 2),
       KwS("quantum_circuit_type", "v2")>>,
     <<KwI("batch_size", 1), KwI("episode_length", 1),
       KwS("quantum_circuit_type", "v3"), KwS("reward_mode", "mixed")>>,
     <<KwI("batch_size", 1), KwI("episode_length", 2),
       KwS("quantum_circuit_type", "v2"), KwS("init", "X+"),
       KwS("reward_mode", "pauli")>>,
     <<KwI("batch_size", 1), KwI("max_episode_length", 3),
       KwS("quantum_circuit_type", "v2"), KwS("init", "random"),
       KwS("reward_mode", "zero")>>}

\* the state once the defaults are assigned (lines 58-66), before the
\* keyword arguments are applied
Init ==
    /\ status = "constructing"
    /\ kwargs \in CfgKwargs \cup RunKwargs
    /\ given = kwargs
    /\ N = 100
    /\ H = 1
    /\ max_episode_length = 0
    /\ episode_length = 20
    /\ _batch_size = 50
    /\ _init = "vac"
    /\ _reward_mode = "stabilizers"
    /\ calculate_reward = "reward_stabilizers"
    /\ quantum_circuit_type = "v1"
    /\ _state = <<>>
    /\ _original = <<>>
    /\ _elapsed_steps = 0
    /\ _episode_ended = FALSE
    /\ _episode_return = <<>>
    /\ info = <<>>
    /\ history = <<>>
    /\ _current_time_step_ = [step_type |-> "NONE", reward |-> <<>>,
                              observation |-> <<>>]
    /\ raised = "none"
    /\ assigns = 0
    /\ pe_calls = 0
    /\ pe_result = <<>>
    /\ call = Call("__init__", NoArg)
    /\ circuit_in = <<>>
    /\ Kraus = <<>>

\* one round of the loop of lines 69-70; an exception ends __init__
ApplyKwarg ==
    /\ status = "constructing"
    /\ kwargs # <<>>
    /\ LET r == setattr(Head(kwargs))
       IN  /\ Assign(r)
           /\ status' = IF r.raised = "none" THEN status ELSE "failed"
    /\ kwargs' = Tail(kwargs)
    /\ call' = Call("setattr", Head(kwargs))
    /\ UNCHANGED <<given, episode, assigns, circuit_in, Kraus>>

\* lines 72-81: the specs, the operators and the code tables are built
FinishInit ==
    /\ status = "constructing"
    /\ kwargs = <<>>
    /\ status' = "ready"
    /\ UNCHANGED <<kwargs, given, config, episode, raised, assigns, call,
                   circuit_in, Kraus>>

---------------------------------------------------------------------------
(* Assignments to the properties of a constructed environment              *)

SetRewardMode ==
    /\ status = "ready"
    /\ assigns < MaxAssign
    /\ assigns' = assigns + 1
    /\ \E mode \in {"pauli", "stabilizers", "bogus"} :
          /\ Assign(setattr(KwS("reward_mode", mode)))
          /\ call' = Call("setattr", KwS("reward_mode", mode))
    /\ UNCHANGED <<status, kwargs, given, episode, circuit_in, Kraus>>

SetInit ==
    /\ status = "ready"
    /\ assigns < MaxAssign
    /\ assigns' = assigns + 1
    /\ \E val \in {"vac", "X+", "bogus"} :
          /\ Assign(setattr(KwS("init", val)))
          /\ call' = Call("setattr", KwS("init", val))
    /\ UNCHANGED <<status, kwargs, given, episode, circuit_in, Kraus>>

SetBatchSize ==
    /\ status = "ready"
    /\ assigns < MaxAssign
    /\ assigns' = assigns + 1
    /\ \E size \in {KwI("batch_size", 1), KwI("batch_size", 0)} :
          /\ Assign(setattr(size))
          /\ call' = Call("setattr", size)
    /\ UNCHANGED <<status, kwargs, given, episode, circuit_in, Kraus>>

SetN ==
    /\ status = "ready"
    /\ assigns < MaxAssign
    /\ assigns' = assigns + 1
    /\ \E n \in {20} :
          /\ Assign(setattr(KwI("N", n)))
          /\ call' = Call("setattr", KwI("N", n))
    /\ UNCHANGED <<status, kwargs, given, episode, circuit_in, Kraus>>

---------------------------------------------------------------------------
(* Episodes: _reset and _step                                              *)

Batch == 1.._batch_size

\* the keys of action_spec, set by create_specs
ActionKeys(type) ==
    IF type = "v3" THEN {"alpha", "beta", "phi", "epsilon"}
    ELSE {"alpha", "beta", "phi"}

\* val[:] of a list: the horizon ignored
LastH_all(val, h) == val

\* val[-H:] of a list
LastH(val, h) ==
    IF h = 0 \/ h >= Len(val) THEN val
    ELSE SubSeq(val, Len(val) - h + 1, Len(val))

\* {key : tf.concat(val[-self.H:], axis=1) for key, val in history.items()}
Observation(hist, h) == [key \in DOMAIN hist |-> LastH(hist[key], h)]

\* every way of taking one element of each set of a sequence of sets
RECURSIVE Product(_)
Product(S) ==
    IF S = <<>> THEN {<<>>}
    ELSE {<<x>> \o rest : x \in Head(S), rest \in Product(Tail(S))}

_reset ==
    /\ status = "ready"
    /\ _batch_size <= MaxBatch
    /\ \E orig \in (IF _init = "random"
                    THEN [Batch -> {"X+", "Y+", "Z+"}]
                    ELSE {[i \in Batch |-> _init]}) :
          /\ _original' = orig
          /\ _state' = [i \in Batch |-> states(orig[i])]
    /\ episode_length' \in (IF max_episode_length # 0
                            THEN 1..(max_episode_length - 1)
                            ELSE {episode_length})
    /\ _episode_ended' = FALSE
    /\ _elapsed_steps' = 0
    /\ _episode_return' = [i \in Batch |-> 0]
    /\ info' = <<>>
    /\ history' =
          [key \in ActionKeys(quantum_circuit_type) \cup {"msmt"} |->
              [t \in 1..H |-> [i \in Batch |->
                  CASE key = "msmt" -> 1
                    [] key = "phi" -> 0
                    [] OTHER -> ZeroAmp]]]
    /\ _current_time_step_' =
          [step_type |-> "FIRST", reward |-> [i \in Batch |-> 0],
           observation |-> Observation(history', H)]
    /\ pe_calls' = 0
    /\ pe_result' = <<>>
    /\ raised' = "none"
    /\ call' = Call("_reset", NoArg)
    /\ UNCHANGED <<status, kwargs, given, N, H, max_episode_length,
                   quantum_circuit_type, _batch_size, _init, _reward_mode,
                   calculate_reward, assigns, circuit_in, Kraus>>

\* the actions explored, one batch element's
ActionInputs(type) ==
    LET base == {[alpha |-> ZeroAmp, beta |-> ZeroAmp, phi |-> 0],
                 [alpha |-> <<1, 1>>, beta |-> <<1, 0>>, phi |-> 0],
                 [alpha |-> ZeroAmp, beta |-> <<2, 1>>, phi |-> 1]}
    IN  CASE type = "v1" -> base
          [] type = "v2" -> {a \in base : Halvable(a.beta)}
          [] OTHER ->
               {[alpha |-> a.alpha, beta |-> a.beta, phi |-> a.phi,
                 epsilon |-> e] :
                  a \in {a \in base : Halvable(a.beta)},
                  e \in {ZeroAmp, <<2, 0>>}}

\* the batched actions explored: the last trajectory is given every action,
\* the trajectories before it the zero action
BatchInputs(type) ==
    {action \in [Batch -> ActionInputs(type)] :
        \A i \in Batch : i < _batch_size =>
            /\ action[i].alpha = ZeroAmp
            /\ action[i].beta = ZeroAmp
            /\ action[i].phi = 0
            /\ ("epsilon" \in DOMAIN action[i] => action[i].epsilon = ZeroAmp)}

\* reward_zero
reward_zero(obs, act) == [i \in Batch |-> 0]

\* reward_stabilizers without the mask
reward_stabilizers_unmasked(obs, act) == [i \in Batch |-> obs[i]]

\* reward_stabilizers: obs * (act['phi'] == 0)
reward_stabilizers(obs, act) ==
    [i \in Batch |-> IF act[i].phi = 0 THEN obs[i] ELSE 0]

\* reward_pauli, with the incremented step count: what it can return, as
\* [raised, z, pe] where pe says whether phase_estimation was called
reward_pauli(elapsed, psi_cached) ==
    IF elapsed < episode_length
    THEN {[raised |-> "none", z |-> [i \in Batch |-> 0], pe |-> FALSE]}
    ELSE IF \E i \in Batch : FirstChar(_original[i]) \notin CodeKeys
    THEN {[raised |-> "KeyError", z |-> <<>>, pe |-> FALSE]}
    ELSE {[raised |-> "none", z |-> z, pe |-> TRUE] :
            z \in Product([i \in Batch |->
                    phase_estimation(psi_cached[i],
                                     code_map(FirstChar(_original[i])), 0)])}

\* reward_mixed: each trajectory measures S_q or S_p
reward_mixed(elapsed, psi_cached) ==
    IF elapsed < episode_length
    THEN {[raised |-> "none", z |-> [i \in Batch |-> 0], pe |-> FALSE]}
    ELSE {[raised |-> "none", z |-> z, pe |-> TRUE] :
            z \in Product([i \in Batch |->
                    UNION {phase_estimation(psi_cached[i], code_map(key), 0) :
                             key \in {"S_q", "S_p"}}])}

\* self.calculate_reward(obs, action)
Reward(obs, act, elapsed, psi_cached) ==
    CASE calculate_reward = "reward_zero" ->
           {[raised |-> "none", z |-> reward_zero(obs, act), pe |-> FALSE]}
      [] calculate_reward = "reward_stabilizers" ->
           {[raised |-> "none", z |-> reward_stabilizers(obs, act),
             pe |-> FALSE]}
      [] calculate_reward = "reward_pauli" -> reward_pauli(elapsed, psi_cached)
      [] OTHER -> reward_mixed(elapsed, psi_cached)

\* the test of the count made one call late
EpisodeEnded_late(elapsed) == elapsed > episode_length

\* whether the step that brings the count to `elapsed` ends the episode
EpisodeEnded(elapsed) == elapsed = episode_length

\* the history kept as a window: the oldest entry dropped on every append
Append1_sliding(hist, action, obs) ==
    [key \in DOMAIN hist |->
        IF key = "msmt" THEN Tail(Append(hist[key], obs))
        ELSE Tail(Append(hist[key], [i \in Batch |-> action[i][key]]))]

\* the history with one step's action and outcomes appended
Append1(hist, action, obs) ==
    [key \in DOMAIN hist |->
        IF key = "msmt" THEN Append(hist[key], obs)
        ELSE Append(hist[key], [i \in Batch |-> action[i][key]])]

_step ==
    /\ status = "ready"
    /\ _state # <<>>
    /\ _elapsed_steps < MaxSteps
    /\ _elapsed_steps < episode_length + MaxPast
    /\ \E action \in BatchInputs(quantum_circuit_type) :
       \E out \in Product([i \in Batch |->
                    quantum_circuit(quantum_circuit_type, _state[i],
                                    action[i])]) :
          LET obs == [i \in Batch |-> out[i].obs]
              psi_cached == [i \in Batch |-> out[i].psi_cached]
              elapsed == _elapsed_steps + 1
              hist == Append1(history, action, obs)
          IN  /\ _state' = [i \in Batch |-> out[i].psi_final]
              /\ info' = psi_cached
              /\ _elapsed_steps' = elapsed
              /\ _episode_ended' = EpisodeEnded(elapsed)
              /\ history' = hist
              /\ \E r \in Reward(obs, action, elapsed, psi_cached) :
                    /\ raised' = r.raised
                    /\ pe_calls' = IF r.pe THEN pe_calls + 1 ELSE pe_calls
                    /\ pe_result' = IF r.pe THEN r.z ELSE pe_result
                    /\ IF r.raised = "none"
                       THEN /\ _episode_return' =
                                  [i \in Batch |-> _episode_return[i] + r.z[i]]
                            /\ _current_time_step_' =
                                  [step_type |->
                                      IF EpisodeEnded(elapsed) THEN "LAST"
                                      ELSE "MID",
                                   reward |-> r.z,
                                   observation |-> Observation(hist, H)]
                       ELSE UNCHANGED <<_episode_return, _current_time_step_>>
    /\ call' = Call("_step", NoArg)
    /\ UNCHANGED <<status, kwargs, given, config, _original, assigns,
                   circuit_in, Kraus>>

Next ==
    \/ ApplyKwarg
    \/ FinishInit
    \/ SetRewardMode
    \/ SetInit
    \/ SetBatchSize
    \/ SetN
    \/ _reset
    \/ _step

Spec == Init /\ [][Next]_vars

---------------------------------------------------------------------------
(* The measurement operators as a function of the action: the circuits'    *)
(* Kraus pairs are built for every amplitude of the table and every        *)
(* quarter-turn phase.                                                     *)

Amps == {<<t, u>> : t \in 0..4, u \in 0..3}
Phis == 0..3

KrausInputs ==
    {[type |-> "v1", action |-> [alpha |-> ZeroAmp, beta |-> b, phi |-> f]] :
        b \in Amps, f \in Phis}
    \cup {[type |-> "v2",
           action |-> [alpha |-> ZeroAmp, beta |-> b, phi |-> f]] :
            b \in {a \in Amps : Halvable(a)}, f \in Phis}
    \cup {[type |-> "v3",
           action |-> [alpha |-> ZeroAmp, beta |-> b, phi |-> f,
                       epsilon |-> e]] :
            b \in {a \in Amps : Halvable(a)},
            e \in {a \in Amps : Halvable(a)}, f \in Phis}

\* the translations a circuit builds its Kraus pair from
KrausTranslations(in) ==
    CASE in.type = "v1" -> {translate(in.action.beta)}
      [] in.type = "v2" -> {translate(Half(in.action.beta))}
      [] OTHER -> {translate(Half(in.action.beta)),
                   translate(Half(in.action.epsilon))}

InitKraus ==
    /\ status = "ready"
    /\ kwargs = <<>>
    /\ given = <<>>
    /\ N = 100
    /\ H = 1
    /\ max_episode_length = 0
    /\ episode_length = 20
    /\ _batch_size = 50
    /\ _init = "vac"
    /\ _reward_mode = "stabilizers"
    /\ calculate_reward = "reward_stabilizers"
    /\ quantum_circuit_type = "v1"
    /\ _state = <<>>
    /\ _original = <<>>
    /\ _elapsed_steps = 0
    /\ _episode_ended = FALSE
    /\ _episode_return = <<>>
    /\ info = <<>>
    /\ history = <<>>
    /\ _current_time_step_ = [step_type |-> "NONE", reward |-> <<>>,
                              observation |-> <<>>]
    /\ raised = "none"
    /\ assigns = 0
    /\ pe_calls = 0
    /\ pe_result = <<>>
    /\ call = Call("__init__", NoArg)
    /\ circuit_in \in KrausInputs
    /\ Kraus = <<>>

\* the lines of quantum_circuit_v1/v2/v3 that fill the dictionary Kraus
BuildKraus ==
    /\ Kraus = <<>>
    /\ Kraus' = CircuitKraus(circuit_in.type, circuit_in.action)
    /\ UNCHANGED <<status, kwargs, given, config, episode, raised, assigns,
                   call, circuit_in>>

NextKraus == BuildKraus

SpecKraus == InitKraus /\ [][NextKraus]_vars

---------------------------------------------------------------------------
(* Properties                                                              *)

ts_step_type == _current_time_step_.step_type
ts_reward == _current_time_step_.reward
ts_observation == _current_time_step_.observation
Last(seq) == seq[Len(seq)]

\* the last call made on the environment was a step / a step that returned
StepCalled == status = "ready" /\ call.op = "_step"
StepReturned == StepCalled /\ raised = "none"

\* what reset fills the history with
Filler(key) ==
    CASE key = "msmt" -> 1
      [] key = "phi" -> 0
      [] OTHER -> ZeroAmp

\* C1: counting the step calls since the last reset, for an episode length
\* L >= 1 fixed at that reset, the n-th call (n <= L) leaves _episode_ended
\* true exactly when n = L, and the time step it returns is a termination
\* (LAST) when n = L and a transition (MID) when n < L.
C1_TerminationOnLthStep ==
    StepCalled /\ _elapsed_steps <= episode_length =>
        /\ _episode_ended = (_elapsed_steps = episode_length)
        /\ raised = "none" =>
              ts_step_type = (IF _elapsed_steps = episode_length
                              THEN "LAST" ELSE "MID")

C1_Witness ==
    /\ StepReturned
    /\ episode_length = 3
    /\ _elapsed_steps = 3
    /\ _episode_ended
    /\ ts_step_type = "LAST"

\* C2: the observation returned by reset and by every step has, for every
\* component (alpha, beta, phi, msmt, and epsilon for v3), exactly H entries:
\* entry j is the value of step n - H + j since the reset (n steps taken),
\* oldest first, and action 0 / measurement +1 where that step was not taken.
C2_ObservationHorizon ==
    status = "ready" /\ (call.op = "_reset" \/ StepReturned) =>
        /\ DOMAIN ts_observation =
              ActionKeys(quantum_circuit_type) \cup {"msmt"}
        /\ \A key \in DOMAIN ts_observation :
              /\ Len(ts_observation[key]) = H
              /\ \A j \in 1..H :
                    LET s == _elapsed_steps - H + j
                    IN  ts_observation[key][j] =
                           IF s >= 1 THEN history[key][H + s]
                           ELSE [i \in Batch |-> Filler(key)]

C2_Witness ==
    /\ StepReturned
    /\ H = 2
    /\ _elapsed_steps = 3
    /\ Len(ts_observation["msmt"]) = 2
    /\ ts_observation["beta"][2][1] # ZeroAmp

\* C3: after reset and after every step, every trajectory's state vector
\* held by the environment has unit norm.
C3_UnitNorm ==
    status = "ready" /\ _state # <<>> =>
        \A i \in DOMAIN _state : IsUnitNorm(_state[i])

\* keyword arguments asking for the pauli reward on the vacuum, init given
\* or left at its default
HasKey(q, k) == \E j \in 1..Len(q) : q[j].k = k
HasKw(q, k, str) == \E j \in 1..Len(q) : q[j].k = k /\ q[j].s = str
PauliOnVac(q) ==
    /\ HasKw(q, "reward_mode", "pauli")
    /\ HasKw(q, "init", "vac") \/ ~HasKey(q, "init")

\* C4: constructing with reward_mode='pauli' and init='vac' (init explicit
\* or defaulted, in either keyword order) fails: the loop over the keyword
\* arguments never completes, no object is produced, and the error is a
\* ValueError.
C4_PauliOnVacRejected ==
    PauliOnVac(given) =>
        /\ status # "ready"
        /\ status = "constructing" => kwargs # <<>>
        /\ status = "failed" => raised = "ValueError"

C4_Witness ==
    /\ status = "failed"
    /\ given = <<KwS("init", "vac"), KwS("reward_mode", "pauli")>>
    /\ raised = "ValueError"
    /\ call = Call("setattr", KwS("reward_mode", "pauli"))

\* an assignment to an attribute was made by this step
Assigned == call'.op = "setattr" /\ (assigns' = assigns + 1 \/ kwargs' # kwargs)

\* C5: assigning reward_mode a name outside the four modes, init a name
\* outside the eight initial states, or batch_size a value that is not a
\* positive integer raises at that assignment and leaves the stored value
\* of that setting as it was.
C5_InvalidAssignmentRejected ==
    [][Assigned =>
        LET kw == call'.arg
        IN  /\ kw.k = "reward_mode" /\ kw.s \notin RewardModes =>
                /\ raised' = "ValueError"
                /\ _reward_mode' = _reward_mode
                /\ calculate_reward' = calculate_reward
            /\ kw.k = "init" /\ kw.s \notin InitModes =>
                /\ raised' = "ValueError"
                /\ _init' = _init
            /\ kw.k = "batch_size" /\ ~(kw.int /\ kw.i > 0) =>
                /\ raised' = "ValueError"
                /\ _batch_size' = _batch_size]_vars

C5_Witness ==
    /\ status = "ready"
    /\ call = Call("setattr", KwS("init", "bogus"))
    /\ raised = "ValueError"
    /\ _init = "X+"

\* C6: once construction has completed every assignment to batch_size or N
\* raises and batch_size and N keep their values through every call; during
\* construction an assignment of N, or of a positive integer batch_size, is
\* accepted and stored.
C6_BatchSizeAndNFixed ==
    [][/\ status = "ready" =>
            /\ _batch_size' = _batch_size
            /\ N' = N
            /\ Assigned /\ call'.arg.k \in {"batch_size", "N"} =>
                  raised' = "ValueError"
       /\ status = "constructing" /\ Assigned =>
            /\ call'.arg.k = "N" =>
                  N' = call'.arg.i /\ raised' = "none"
            /\ call'.arg.k = "batch_size" /\ call'.arg.int
                  /\ call'.arg.i > 0 =>
                  _batch_size' = call'.arg.i /\ raised' = "none"]_vars

C6_Witness ==
    /\ status = "ready"
    /\ call = Call("setattr", KwI("batch_size", 1))
    /\ raised = "ValueError"
    /\ _batch_size = 2
    /\ N = 20
    /\ _elapsed_steps >= 1

\* C7: in reward mode 'stabilizers' the reward of every step is, for each
\* trajectory, that step's measurement outcome (+1 or -1) when the
\* trajectory's phi is 0 and 0 otherwise; in mode 'zero' it is 0.
C7_StabilizersAndZeroReward ==
    StepCalled =>
        /\ _reward_mode = "stabilizers" =>
              /\ raised = "none"
              /\ \A i \in Batch :
                    /\ Last(history["msmt"])[i] \in {1, -1}
                    /\ ts_reward[i] = IF Last(history["phi"])[i] = 0
                                      THEN Last(history["msmt"])[i] ELSE 0
        /\ _reward_mode = "zero" =>
              /\ raised = "none"
              /\ \A i \in Batch : ts_reward[i] = 0

C7_Witness ==
    /\ StepReturned
    /\ _reward_mode = "stabilizers"
    /\ _batch_size = 2
    /\ Last(history["phi"]) = <<0, 1>>
    /\ Last(history["msmt"]) = <<1, -1>>
    /\ ts_reward = <<1, 0>>

\* C8: in reward modes 'pauli' and 'mixed', on the calls of an episode (the
\* first L after a reset), the reward is 0 for every trajectory before the
\* final step, and phase estimation is performed exactly once, on the final
\* step, its result (+1 or -1) being that step's reward.
C8_FinalStepPhaseEstimation ==
    StepCalled /\ _reward_mode \in {"pauli", "mixed"}
               /\ _elapsed_steps <= episode_length =>
        /\ raised = "none"
        /\ _elapsed_steps < episode_length =>
              /\ pe_calls = 0
              /\ \A i \in Batch : ts_reward[i] = 0
        /\ _elapsed_steps = episode_length =>
              /\ pe_calls = 1
              /\ ts_reward = pe_result
              /\ \A i \in Batch : pe_result[i] \in {1, -1}

\* the end-to-end scenario: N=20, batch size 2, episode length 3, the
\* defaults init 'vac', reward mode 'stabilizers', circuit 'v1', no later
\* assignment, and only zero actions since the reset
Scenario == <<KwI("N", 20), KwI("batch_size", 2), KwI("episode_length", 3)>>
InScenario ==
    /\ status = "ready"
    /\ given = Scenario
    /\ assigns = 0
    /\ call.op = "_step"
    /\ _elapsed_steps \in 1..3
    /\ \A key \in {"alpha", "beta", "phi"} :
          \A t \in 1..Len(history[key]) :
             \A i \in Batch : history[key][t][i] = Filler(key)

\* C9 as stated: in the scenario, after the third zero-action step the
\* observation's msmt holds three outcomes, each +1 for both trajectories,
\* the reward equals the outcome and the time step is the termination.
C9_ScenarioAsStated ==
    InScenario /\ _elapsed_steps = 3 =>
        /\ Len(ts_observation["msmt"]) = 3
        /\ \A t \in 1..Len(ts_observation["msmt"]) :
              ts_observation["msmt"][t] = <<1, 1>>
        /\ ts_reward = Last(history["msmt"])
        /\ ts_step_type = "LAST"

\* C9: in the scenario every measurement outcome of the one, two or three
\* zero-action steps taken is +1 for both trajectories; each observation's
\* msmt holds H = 1 outcome, the newest, which is +1; each step's reward
\* equals its outcome; and the step is terminal on the third call only.
C9_Scenario ==
    InScenario =>
        /\ Len(history["msmt"]) = H + _elapsed_steps
        /\ \A t \in 1..Len(history["msmt"]) : history["msmt"][t] = <<1, 1>>
        /\ H = 1
        /\ Len(ts_observation["msmt"]) = H
        /\ ts_observation["msmt"][1] = <<1, 1>>
        /\ ts_reward = Last(history["msmt"])
        /\ _episode_ended = (_elapsed_steps = 3)
        /\ ts_step_type = (IF _elapsed_steps = 3 THEN "LAST" ELSE "MID")

C9_Witness ==
    /\ InScenario
    /\ _elapsed_steps = 3
    /\ ts_step_type = "LAST"
    /\ ts_reward = <<1, 1>>

\* C10: for each circuit v1, v2, v3 and every beta, phi (and epsilon for
\* v3), if the translations the circuit uses are unitary then
\* Kraus[0]^dagger Kraus[0] + Kraus[1]^dagger Kraus[1] = I.
C10_KrausComplete ==
    Kraus # <<>> /\ (\A T \in KrausTranslations(circuit_in) : IsUnitary(T)) =>
        Complete(Kraus)

C10_Witness ==
    /\ Kraus # <<>>
    /\ circuit_in.type = "v3"
    /\ circuit_in.action.beta = <<3, 1>>
    /\ circuit_in.action.epsilon = <<2, 0>>
    /\ circuit_in.action.phi = 1
    /\ \A T \in KrausTranslations(circuit_in) : IsUnitary(T)
    /\ Complete(Kraus)

\* C11: once a step has ended the episode, a further step made before the
\* next reset leaves the episode-ended flag set and, when it returns, yields
\* a termination time step, never a mid-episode one.
C11_StaysTerminated ==
    StepCalled /\ _elapsed_steps > episode_length =>
        /\ _episode_ended
        /\ raised = "none" => ts_step_type = "LAST"

StepAction(hist, i) ==
    [key \in ActionKeys(quantum_circuit_type) |-> Last(hist[key])[i]]

\* C13: in every step, for every circuit variant, the wavefunction stored in
\* info['psi_cached'] is the step's own state after the delay noise and the
\* feedback translation T(alpha); the state the step leaves and its outcome
\* come from that cache by gate/readout noise, renormalisation and the
\* two-outcome measurement, in this order; and a phase estimation made by the
\* step's 'pauli' or 'mixed' reward measures that cache.
C13_StageOrderAndCache ==
    [][call'.op = "_step" /\ _elapsed_steps' = _elapsed_steps + 1 =>
        \A i \in Batch :
          LET action == StepAction(history', i)
              Kraus_i == CircuitKraus(quantum_circuit_type, action)
          IN  /\ \E delayed \in mc_run(_state[i], mc_steps_delay) :
                    info'[i] = batch_dot(translate(action.alpha), delayed)
              /\ \E noisy \in mc_run(info'[i], mc_steps_round) :
                 \E r \in measurement(normalize(noisy), Kraus_i) :
                    /\ _state'[i] = r.psi
                    /\ Last(history'["msmt"])[i] = r.obs
              /\ pe_calls' = pe_calls + 1 =>
                    pe_result'[i] \in
                      IF calculate_reward = "reward_pauli"
                      THEN phase_estimation(info'[i],
                               code_map(FirstChar(_original[i])), 0)
                      ELSE UNION {phase_estimation(info'[i], code_map(key), 0) :
                                    key \in {"S_q", "S_p"}}]_vars

C13_Witness ==
    /\ StepReturned
    /\ calculate_reward = "reward_pauli"
    /\ episode_length >= 2
    /\ _elapsed_steps = episode_length
    /\ pe_calls = 1
    /\ info[1] # _state[1]
    /\ Last(history["beta"])[1] # ZeroAmp

\* C14: after any sequence of reward_mode assignments, accepted or rejected,
\* the name read from reward_mode is the name of the reward function that
\* step dispatches to.
C14_ModeNamesFunction ==
    status = "ready" => calculate_reward = reward_function(_reward_mode)

\* C15: no sequence of assignments to reward_mode and init, at construction
\* or afterwards, reaches an environment whose active reward function is the
\* 'pauli' reward while init is 'vac'.
C15_NoPauliOnVac ==
    status = "ready" => ~(calculate_reward = "reward_pauli" /\ _init = "vac")

\* a keyword combination that is valid as a whole: every value is supported
\* and the 'pauli' reward does not meet a 'vac' initialisation
ValidAsWhole(q) ==
    /\ \A j \in 1..Len(q) :
          /\ q[j].k = "init" => q[j].s \in InitModes
          /\ q[j].k = "reward_mode" => q[j].s \in RewardModes
          /\ q[j].k = "batch_size" => q[j].int /\ q[j].i > 0
    /\ ~PauliOnVac(q)

\* C16: whether construction is accepted depends only on the set of keyword
\* values given: a combination valid as a whole is accepted in every keyword
\* order and an invalid one is rejected in every order.
C16_OrderIndependent ==
    status \in {"ready", "failed"} => (status = "ready" <=> ValidAsWhole(given))

=============================================================================
